---- MODULE Spec2Model ----
(***************************************************************************)
(* LP-Query: currency exchange rates.  The write path fetches the rates    *)
(* from the external API and replaces the document of the Cosmos DB        *)
(* container (CosmosService.update_rates_in_cosmos); the read path reads   *)
(* the stored document and computes cross rates (exchange_currency,        *)
(* get_supported_currencies, exchange_currency_http).                      *)
(*                                                                         *)
(* Python floats are modelled as exact rationals <<n, d>> in lowest terms  *)
(* (d > 0); the inputs are chosen so that no rounding tie arises that the  *)
(* binary representation would break differently.  Python dicts are        *)
(* functions on a set of string keys; None is the string "None".           *)
(***************************************************************************)
EXTENDS Integers, Sequences, FiniteSets, TLC

VARIABLES
    container,   \* the documents of the Cosmos DB container (a set of items)
    next_uuid,   \* source of uuid.uuid4(): the next identifier never handed out
    ever_stored, \* history: the ids of all items ever upserted
    pc,          \* per refresh invocation: its position in update_rates_in_cosmos
    response,    \* per invocation: the HTTP response requests.get met
    rate_data,   \* per invocation: what currency_service.get_rates() gave
    items,       \* per invocation: the ids listed by query_items still to delete
    ret,         \* per invocation: what update_exchange_rates returned or raised
    prior_ids,   \* per invocation: ever_stored as it was before its upsert
    runs,        \* number of refresh invocations started so far
    resp         \* the last query operation: its arguments and its outcome

vars == <<container, next_uuid, ever_stored, pc, response, rate_data, items,
          ret, prior_ids, runs, resp>>

jobvars == <<container, next_uuid, ever_stored, pc, response, rate_data, items,
             ret, prior_ids, runs>>

(***************************************************************************)
(* Bounds of the model.                                                    *)
(***************************************************************************)
MaxRuns == 3

\* The refresh invocations that may overlap: the timer trigger firing on two
\* instances of the function app.
Jobs == {"timer_a", "timer_b"}

(***************************************************************************)
(* Python values.                                                          *)
(***************************************************************************)
None == "None"

EmptyDict == [k \in {} |-> 0]

\* dict.get(key, default)
Get(d, key, default) == IF key \in DOMAIN d THEN d[key] ELSE default

Ok(v) == [ok |-> TRUE, value |-> v]

Raise(type, msg) == [ok |-> FALSE, error |-> [type |-> type, msg |-> msg]]

\* The exception classes met, each with its base classes (itself included).
Bases(type) ==
    CASE type = "ValueError" -> {"ValueError", "Exception"}
      [] type = "JSONDecodeError" ->
            {"JSONDecodeError", "RequestException", "ValueError", "Exception"}
      [] type = "Timeout" -> {"Timeout", "RequestException", "Exception"}
      [] type = "HTTPError" -> {"HTTPError", "RequestException", "Exception"}
      [] type = "ZeroDivisionError" ->
            {"ZeroDivisionError", "ArithmeticError", "Exception"}
      [] type = "CosmosResourceNotFoundError" ->
            {"CosmosResourceNotFoundError", "CosmosHttpResponseError", "Exception"}
      [] type = "CosmosHttpResponseError" ->
            {"CosmosHttpResponseError", "Exception"}
      [] OTHER -> {type, "Exception"}

\* isinstance(e, cls), as an except clause tests it
IsInstance(error, cls) == cls \in Bases(error.type)

(***************************************************************************)
(* Rational arithmetic standing for float arithmetic.                      *)
(***************************************************************************)
Abs(n) == IF n < 0 THEN -n ELSE n

RECURSIVE GCD(_, _)
GCD(a, b) == IF b = 0 THEN a ELSE GCD(b, a % b)

Rat(n, d) ==
    LET g == GCD(Abs(n), d)
    IN  IF n = 0 THEN <<0, 1>> ELSE <<n \div g, d \div g>>

RatMul(x, y) == Rat(x[1] * y[1], x[2] * y[2])

\* x / y for y # 0 (Python raises ZeroDivisionError for y = 0, see the callers)
RatDiv(x, y) ==
    IF y[1] > 0 THEN Rat(x[1] * y[2], x[2] * y[1])
                ELSE Rat(-(x[1] * y[2]), x[2] * (-y[1]))

RatLess(x, y) == x[1] * y[2] < y[1] * x[2]

Zero == <<0, 1>>

One == <<1, 1>>

\* 10 ** ndigits
RECURSIVE Pow10(_)
Pow10(k) == IF k = 0 THEN 1 ELSE 10 * Pow10(k - 1)

\* round(x, ndigits) for x >= 0: to the nearest multiple of 10 ** -ndigits,
\* an exact tie to the even one.
Round(x, ndigits) ==
    LET p == Pow10(ndigits)
        g == GCD(p, x[2])
        n == x[1] * (p \div g)
        d == x[2] \div g
        q == n \div d
        r == n % d
        up == (2 * r > d) \/ (2 * r = d /\ q % 2 = 1)
    IN  Rat(IF up THEN q + 1 ELSE q, p)

(***************************************************************************)
(* config.py                                                               *)
(***************************************************************************)
SUPPORTED_CURRENCIES ==
    <<"USD", "EUR", "GBP", "JPY", "CAD", "AUD", "CHF", "CNY", "INR", "KRW">>

\* x in list
InList(x, list) == \E i \in 1..Len(list) : list[i] = x

\* The orders in which the elements of a finite set may be listed.
Orderings(S) ==
    {s \in [1..Cardinality(S) -> S] : \A i, k \in 1..Cardinality(S) : s[i] = s[k] => i = k}

(***************************************************************************)
(* The external rate API: the JSON bodies it may answer with.              *)
(***************************************************************************)
RatesA == [USD |-> <<1, 1>>, EUR |-> <<9, 10>>, JPY |-> <<150, 1>>]

\* Malformed upstream data: a rate of 0, a code outside the supported list.
RatesB == [USD |-> <<1, 1>>, EUR |-> <<0, 1>>, GBP |-> <<4, 5>>, XYZ |-> <<2, 1>>]

BodyA ==
    [result |-> "success", base_code |-> "USD", conversion_rates |-> RatesA,
     time_last_update_unix |-> "1730678401",
     time_last_update_utc |-> "Mon, 04 Nov 2024 00:00:01 +0000",
     time_next_update_unix |-> "1730764801",
     time_next_update_utc |-> "Tue, 05 Nov 2024 00:00:01 +0000"]

BodyB ==
    [result |-> "success", base_code |-> "USD", conversion_rates |-> RatesB,
     time_last_update_unix |-> "1730764801",
     time_last_update_utc |-> "Tue, 05 Nov 2024 00:00:01 +0000",
     time_next_update_unix |-> "1730851201",
     time_next_update_utc |-> "Wed, 06 Nov 2024 00:00:01 +0000"]

BodyError == ("result" :> "error") @@ ("error-type" :> "invalid-key")

\* A body with rates and no "result" key.
BodyNoResult == [base_code |-> "USD", conversion_rates |-> RatesA]

Bodies == {BodyA, BodyB, BodyError, BodyNoResult, EmptyDict}

\* What requests.get(api_url, timeout=30) may meet: no answer within the
\* timeout, or an answer with a status code and a text that parses as JSON
\* (to body) or does not.
HttpResponse(timed_out, status_code, valid_json, body) ==
    [timed_out |-> timed_out, status_code |-> status_code,
     valid_json |-> valid_json, body |-> body]

Responses ==
    {HttpResponse(TRUE, 0, FALSE, EmptyDict)}
      \cup {HttpResponse(FALSE, 500, TRUE, BodyA)}
      \cup {HttpResponse(FALSE, 200, FALSE, EmptyDict)}
      \cup {HttpResponse(FALSE, 200, TRUE, b) : b \in Bodies}

(***************************************************************************)
(* services/currency_exchange_rate_service.py                              *)
(***************************************************************************)
\* response.raise_for_status(): HTTPError for a 4xx or 5xx status
raise_for_status(r) == 400 <= r.status_code /\ r.status_code < 600

\* The status of the answer is not looked at.
get_rates_any_status(r) ==
    IF r.timed_out THEN Raise("Timeout", "Read timed out. (read timeout=30)")
    ELSE IF ~r.valid_json THEN Raise("JSONDecodeError", "Expecting value")
    ELSE Ok(r.body)

\* CurrencyExchangeRateService.get_rates: both except clauses re-raise.
get_rates(r) ==
    IF r.timed_out THEN Raise("Timeout", "Read timed out. (read timeout=30)")
    ELSE IF raise_for_status(r) THEN Raise("HTTPError", "Server Error")
    ELSE IF ~r.valid_json THEN Raise("JSONDecodeError", "Expecting value")
    ELSE Ok(r.body)

(***************************************************************************)
(* services/cosmos_service.py                                              *)
(***************************************************************************)
\* Only an empty payload is refused.
invalid_rate_data_only_empty(data) == data = EmptyDict

\* "if not rate_data or rate_data.get("result") != "success""
invalid_rate_data(data) ==
    data = EmptyDict \/ Get(data, "result", None) # "success"

\* CosmosService._prepare_item_for_cosmos, with the uuid4 drawn for the id
_prepare_item_for_cosmos(data, uuid) ==
    [id |-> uuid,
     time_last_update_unix |-> Get(data, "time_last_update_unix", None),
     time_last_update_utc |-> Get(data, "time_last_update_utc", None),
     time_next_update_unix |-> Get(data, "time_next_update_unix", None),
     time_next_update_utc |-> Get(data, "time_next_update_utc", None),
     base_code |-> Get(data, "base_code", None),
     conversion_rates |-> Get(data, "conversion_rates", EmptyDict)]

\* container.upsert_item(item): the item replaces the one of the same id
upsert_item(c, item) == {d \in c : d.id # item.id} \cup {item}

\* container.delete_item(item=id, partition_key=id)
delete_item(c, id) == {d \in c : d.id # id}

Ids(c) == {d.id : d \in c}

Active == {"query_items", "delete_item", "upsert_item"}

\* update_exchange_rates -> update_rates_in_cosmos, step 1: fetch and check
\* the rates.  A raise is logged and re-raised by both functions.
StartUpdate(j, r) ==
    /\ pc[j] \notin Active
    /\ runs < MaxRuns
    /\ runs' = runs + 1
    /\ response' = [response EXCEPT ![j] = r]
    /\ rate_data' = [rate_data EXCEPT ![j] = get_rates(r)]
    /\ items' = [items EXCEPT ![j] = <<>>]
    /\ prior_ids' = [prior_ids EXCEPT ![j] = {}]
    /\ IF ~get_rates(r).ok
         THEN /\ pc' = [pc EXCEPT ![j] = "failed"]
              /\ ret' = [ret EXCEPT ![j] = get_rates(r)]
         ELSE IF invalid_rate_data(get_rates(r).value)
         THEN /\ pc' = [pc EXCEPT ![j] = "failed"]
              /\ ret' = [ret EXCEPT ![j] =
                            Raise("ValueError", "Failed to fetch valid currency rate data")]
         ELSE /\ pc' = [pc EXCEPT ![j] = "query_items"]
              /\ ret' = [ret EXCEPT ![j] = Ok(None)]
    /\ UNCHANGED <<container, next_uuid, ever_stored, resp>>

\* _delete_all_items: "SELECT c.id FROM c", the ids in the order the store
\* lists them.
QueryItems(j) ==
    /\ pc[j] = "query_items"
    /\ \E listed \in Orderings(Ids(container)) :
          /\ items' = [items EXCEPT ![j] = listed]
          /\ pc' = [pc EXCEPT ![j] =
                       IF listed = <<>> THEN "upsert_item" ELSE "delete_item"]
    /\ UNCHANGED <<container, next_uuid, ever_stored, response, rate_data, ret,
                   prior_ids, runs, resp>>

\* _delete_all_items: the query raises; logged and re-raised up to the caller.
QueryItemsFails(j) ==
    /\ pc[j] = "query_items"
    /\ pc' = [pc EXCEPT ![j] = "failed"]
    /\ ret' = [ret EXCEPT ![j] = Raise("CosmosHttpResponseError", "query_items")]
    /\ UNCHANGED <<container, next_uuid, ever_stored, response, rate_data, items,
                   prior_ids, runs, resp>>

\* _delete_all_items, one turn of the loop.  The delete removes the item, or
\* raises CosmosResourceNotFoundError (the item is gone: pass), or raises
\* another error (a warning is logged); the loop goes on in each case.
DeleteItem(j, raises) ==
    /\ pc[j] = "delete_item"
    /\ container' =
          IF raises THEN container ELSE delete_item(container, Head(items[j]))
    /\ items' = [items EXCEPT ![j] = Tail(items[j])]
    /\ pc' = [pc EXCEPT ![j] =
                 IF Tail(items[j]) = <<>> THEN "upsert_item" ELSE "delete_item"]
    /\ UNCHANGED <<next_uuid, ever_stored, response, rate_data, ret, prior_ids,
                   runs, resp>>

\* update_rates_in_cosmos, steps 3 and 4: prepare the item, upsert, return it.
UpsertItem(j) ==
    /\ pc[j] = "upsert_item"
    /\ LET cosmos_item == _prepare_item_for_cosmos(rate_data[j].value, next_uuid)
       IN  /\ container' = upsert_item(container, cosmos_item)
           /\ ever_stored' = ever_stored \cup {cosmos_item.id}
           /\ ret' = [ret EXCEPT ![j] = Ok(cosmos_item)]
    /\ next_uuid' = next_uuid + 1
    /\ prior_ids' = [prior_ids EXCEPT ![j] = ever_stored]
    /\ pc' = [pc EXCEPT ![j] = "done"]
    /\ UNCHANGED <<response, rate_data, items, runs, resp>>

\* update_rates_in_cosmos, step 4: the upsert raises; logged and re-raised.
UpsertItemFails(j) ==
    /\ pc[j] = "upsert_item"
    /\ pc' = [pc EXCEPT ![j] = "failed"]
    /\ ret' = [ret EXCEPT ![j] = Raise("CosmosHttpResponseError", "upsert_item")]
    /\ UNCHANGED <<container, next_uuid, ever_stored, response, rate_data, items, prior_ids,
                   runs, resp>>

\* The process running the invocation dies between two calls to the store;
\* what is recorded for it is the call it was about to make.
Crash(j) ==
    /\ pc[j] \in Active
    /\ pc' = [pc EXCEPT ![j] = "crashed"]
    /\ ret' = [ret EXCEPT ![j] = Raise("SystemExit", pc[j])]
    /\ UNCHANGED <<container, next_uuid, ever_stored, response, rate_data, items,
                   prior_ids, runs, resp>>

\* CosmosService.get_current_rates_from_cosmos, called by the query functions
\* and not defined in services/cosmos_service.py: the stored snapshot, or
\* NotFound when the container is empty.  With several documents stored, any
\* of them may be the one returned.
get_current_rates_from_cosmos(c) ==
    IF c = {} THEN {Raise("NotFound", <<"No currency rates found in database">>)}
              ELSE {Ok(d) : d \in c}

\* No read of the store was made.
NoRead == Raise("NoRead", <<>>)

\* The function was not called.
NotCalled == Raise("NotCalled", <<>>)

(***************************************************************************)
(* functions/exchange_currency.py                                          *)
(***************************************************************************)
\* str.upper() on the currency codes the model passes in
upper(s) ==
    CASE s = "usd" -> "USD"
      [] s = "eur" -> "EUR"
      [] s = "xyz" -> "XYZ"
      [] OTHER -> s

amount_negative_inverted(amount) == RatLess(Zero, amount)

\* "if amount < 0"
amount_negative(amount) == RatLess(amount, Zero)

\* exchange_currency: the store is read once the amount has been checked
reads_store(amount) == ~amount_negative(amount)

not_supported(code) ==
    Raise("ValueError",
          <<"Currency '", code, "' is not supported. Supported currencies: ",
            SUPPORTED_CURRENCIES>>)

not_in_rates(code) ==
    Raise("ValueError",
          <<"Currency '", code, "' not found in current exchange rates from database">>)

\* The snapshot is consulted before the supported list.
validate_currencies_rates_first(from, to, conversion_rates) ==
    IF from \notin DOMAIN conversion_rates THEN not_in_rates(from)
    ELSE IF to \notin DOMAIN conversion_rates THEN not_in_rates(to)
    ELSE IF ~InList(from, SUPPORTED_CURRENCIES) THEN not_supported(from)
    ELSE IF ~InList(to, SUPPORTED_CURRENCIES) THEN not_supported(to)
    ELSE Ok(TRUE)

\* exchange_currency: the four checks of the two codes, in the order made
validate_currencies(from, to, conversion_rates) ==
    IF ~InList(from, SUPPORTED_CURRENCIES) THEN not_supported(from)
    ELSE IF ~InList(to, SUPPORTED_CURRENCIES) THEN not_supported(to)
    ELSE IF from \notin DOMAIN conversion_rates THEN not_in_rates(from)
    ELSE IF to \notin DOMAIN conversion_rates THEN not_in_rates(to)
    ELSE Ok(TRUE)

cross_rate_inverted(from_rate, to_rate) == RatDiv(from_rate, to_rate)

\* "exchange_rate = to_rate / from_rate", for from_rate # 0
cross_rate(from_rate, to_rate) == RatDiv(to_rate, from_rate)

round_converted_2(converted_amount) == Round(converted_amount, 2)

\* "converted_amount": round(converted_amount, 5)
round_converted(converted_amount) == Round(converted_amount, 5)

\* exchange_currency: the computation and the result, the codes being valid
conversion(from, to, amount, stored, conversion_rates) ==
    LET from_rate == conversion_rates[from]
        to_rate == conversion_rates[to]
    IN
    IF from_rate = Zero
    THEN Raise("ZeroDivisionError", <<"float division by zero">>)
    ELSE
      LET exchange_rate == cross_rate(from_rate, to_rate)
          converted_amount == RatMul(amount, exchange_rate)
      IN
      \* rate_info computes 1/exchange_rate
      IF exchange_rate = Zero
      THEN Raise("ZeroDivisionError", <<"float division by zero">>)
      ELSE Ok([from_currency |-> from,
               to_currency |-> to,
               original_amount |-> amount,
               converted_amount |-> round_converted(converted_amount),
               exchange_rate |-> exchange_rate,
               base_currency |-> Get(stored, "base_code", None),
               last_update |-> Get(stored, "time_last_update_utc", None),
               conversion_summary |->
                   <<amount, from, "=", Round(converted_amount, 2), to>>,
               rate_info |->
                   <<<<"1", from, Round(exchange_rate, 6), to>>,
                     <<"1", to, Round(RatDiv(One, exchange_rate), 6), from>>>>])

\* exchange_currency once the store has answered: the codes are upper-cased,
\* checked and converted.
convert_with(stored, from_currency, to_currency, amount) ==
    LET conversion_rates == Get(stored, "conversion_rates", EmptyDict)
        from == upper(from_currency)
        to == upper(to_currency)
        valid == validate_currencies(from, to, conversion_rates)
    IN  IF ~valid.ok THEN valid
        ELSE conversion(from, to, amount, stored, conversion_rates)

\* A failed read is taken for a snapshot without rates.
after_read_swallowing(read, from_currency, to_currency, amount) ==
    convert_with(IF read.ok THEN read.value ELSE EmptyDict,
                 from_currency, to_currency, amount)

\* exchange_currency from its read of the store on: what the read raises
\* leaves the function (logged, re-raised).
after_read(read, from_currency, to_currency, amount) ==
    IF ~read.ok THEN read
    ELSE convert_with(read.value, from_currency, to_currency, amount)

\* exchange_currency(from_currency, to_currency, amount), with `read` the
\* outcome of its call to get_current_rates_from_cosmos.  Both except clauses
\* re-raise.
exchange_currency(from_currency, to_currency, amount, read) ==
    IF amount_negative(amount)
    THEN Raise("ValueError", <<"Amount must be non-negative">>)
    ELSE after_read(read, from_currency, to_currency, amount)

available_supported_by_available(config_supported, available_rates) ==
    SelectSeq(available_rates, LAMBDA currency : InList(currency, config_supported))

\* [currency for currency in config_supported if currency in available_rates]
available_supported(config_supported, available_rates) ==
    SelectSeq(config_supported, LAMBDA currency : InList(currency, available_rates))

\* get_supported_currencies(), with `read` the outcome of its call to
\* get_current_rates_from_cosmos and available_rates the keys of the stored
\* conversion_rates in the order the dict lists them.  The except clause
\* re-raises.
get_supported_currencies(read, available_rates) ==
    IF ~read.ok THEN read
    ELSE
      LET config_supported == SUPPORTED_CURRENCIES
          stored == read.value
      IN  Ok([supported_currencies |-> config_supported,
              available_in_database |-> available_rates,
              supported_and_available |->
                  available_supported(config_supported, available_rates),
              total_supported |-> Len(config_supported),
              total_available |-> Len(available_rates),
              base_currency |-> Get(stored, "base_code", None),
              last_update |-> Get(stored, "time_last_update_utc", None)])

(***************************************************************************)
(* function_app.py                                                         *)
(***************************************************************************)
\* "not from_currency or not to_currency": a parameter absent or empty
missing_param(p) == p = None \/ p = ""

\* func.HttpResponse(json.dumps(body), status_code=...); escaped tells an
\* exception that left the handler instead.
HttpAnswer(status_code, body) ==
    [status_code |-> status_code, body |-> body, escaped |-> FALSE]

\* Every exception is taken by the first clause.
except_clause_exception_first(error) ==
    IF IsInstance(error, "Exception") THEN "system_error"
    ELSE IF IsInstance(error, "ValueError") THEN "validation_error"
    ELSE "escapes"

\* "except (ValueError, ArithmeticError)" in the place of "except ValueError"
except_clause_arithmetic_too(error) ==
    IF IsInstance(error, "ValueError") \/ IsInstance(error, "ArithmeticError")
      THEN "validation_error"
    ELSE IF IsInstance(error, "Exception") THEN "system_error"
    ELSE "escapes"

\* exchange_currency_http: "except ValueError" before "except Exception"
except_clause(error) ==
    IF IsInstance(error, "ValueError") THEN "validation_error"
    ELSE IF IsInstance(error, "Exception") THEN "system_error"
    ELSE "escapes"

\* exchange_currency_http(req), with the query parameters 'from' and 'to'
exchange_currency_http(from_currency, to_currency, read) ==
    IF missing_param(from_currency) \/ missing_param(to_currency)
    THEN HttpAnswer(400, [status |-> "error",
                          message |-> <<"Missing required parameters 'from' and 'to'">>,
                          type |-> None])
    ELSE
      LET result == exchange_currency(from_currency, to_currency, One, read)
      IN  IF result.ok
          THEN HttpAnswer(200,
                 [status |-> "success",
                  data |-> [from_currency |-> result.value.from_currency,
                            to_currency |-> result.value.to_currency,
                            exchange_rate |-> result.value.exchange_rate,
                            base_currency |-> result.value.base_currency,
                            last_update |-> result.value.last_update]])
          ELSE IF except_clause(result.error) = "validation_error"
          THEN HttpAnswer(400, [status |-> "error",
                                message |-> result.error.msg,
                                type |-> "validation_error"])
          ELSE IF except_clause(result.error) = "system_error"
          THEN HttpAnswer(500, [status |-> "error",
                                message |-> <<"Failed to process currency exchange">>,
                                error |-> result.error.msg,
                                type |-> "system_error"])
          ELSE [status_code |-> 0, body |-> result.error, escaped |-> TRUE]

\* Whether the handler reaches its call of exchange_currency, which reads the
\* store (the amount it passes is 1.0).
http_reads_store(from_currency, to_currency) ==
    ~(missing_param(from_currency) \/ missing_param(to_currency))

(***************************************************************************)
(* The query operations as steps: each reads the store at most once.       *)
(***************************************************************************)
ExchangeCurrency(from_currency, to_currency, amount) ==
    /\ \E read \in get_current_rates_from_cosmos(container) :
          resp' = [op |-> "exchange_currency",
                   from_currency |-> from_currency,
                   to_currency |-> to_currency,
                   amount |-> amount,
                   read |-> IF reads_store(amount) THEN read ELSE NoRead,
                   result |-> exchange_currency(from_currency, to_currency, amount, read)]
    /\ UNCHANGED jobvars

ExchangeCurrencyHttp(from_currency, to_currency) ==
    /\ \E read \in get_current_rates_from_cosmos(container) :
          resp' = [op |-> "exchange_currency_http",
                   from_currency |-> from_currency,
                   to_currency |-> to_currency,
                   read |-> IF http_reads_store(from_currency, to_currency)
                              THEN read ELSE NoRead,
                   convert |-> IF http_reads_store(from_currency, to_currency)
                                 THEN exchange_currency(from_currency, to_currency,
                                                        One, read)
                                 ELSE NotCalled,
                   answer |-> exchange_currency_http(from_currency, to_currency, read)]
    /\ UNCHANGED jobvars

\* The orders in which list(conversion_rates.keys()) may come: the store does
\* not fix the order of the keys.  With all_orders every order is followed,
\* without it a single one.
RECURSIVE OneOrdering(_)
OneOrdering(S) ==
    IF S = {} THEN <<>>
    ELSE LET x == CHOOSE y \in S : TRUE IN <<x>> \o OneOrdering(S \ {x})

KeyOrders(keys, all_orders) ==
    IF all_orders THEN Orderings(keys) ELSE {OneOrdering(keys)}

GetSupportedCurrencies(all_orders) ==
    /\ \E read \in get_current_rates_from_cosmos(container) :
          \E available_rates \in
                KeyOrders(IF read.ok
                            THEN DOMAIN Get(read.value, "conversion_rates", EmptyDict)
                            ELSE {}, all_orders) :
             resp' = [op |-> "get_supported_currencies",
                      read |-> read,
                      result |-> get_supported_currencies(read, available_rates)]
    /\ UNCHANGED jobvars

(***************************************************************************)
(* The inputs of the query operations.                                     *)
(***************************************************************************)
CodeInputs == {"USD", "usd", "EUR", "eur", "JPY", "GBP", "XYZ", "xyz"}

Params == CodeInputs \cup {None, ""}

Amounts == {<<-1, 1>>, <<-1, 2>>, <<0, 1>>, <<1, 1>>, <<10, 1>>, <<3, 2>>,
            <<1, 1000000>>, <<7, 1000000>>}

SuccessBodies == {b \in Bodies : ~invalid_rate_data(b)}

\* The contents the container can have: empty, one snapshot, or two when a
\* delete failed or two refresh invocations overlapped.
StoreStates ==
    {{}} \cup {{_prepare_item_for_cosmos(b, 1)} : b \in SuccessBodies}
         \cup {{_prepare_item_for_cosmos(a, 1), _prepare_item_for_cosmos(b, 2)} :
                  a \in SuccessBodies, b \in SuccessBodies}

(***************************************************************************)
(* Specifications.                                                         *)
(***************************************************************************)
NoResponse == HttpResponse(FALSE, 0, FALSE, EmptyDict)

InitJobs ==
    /\ pc = [j \in Jobs |-> "idle"]
    /\ response = [j \in Jobs |-> NoResponse]
    /\ rate_data = [j \in Jobs |-> NotCalled]
    /\ items = [j \in Jobs |-> <<>>]
    /\ ret = [j \in Jobs |-> NotCalled]
    /\ prior_ids = [j \in Jobs |-> {}]
    /\ runs = 0
    /\ resp = [op |-> "none"]

\* The container as created: empty.
Init ==
    /\ container = {}
    /\ next_uuid = 1
    /\ ever_stored = {}
    /\ InitJobs

\* The refresh invocations, the store between them, and queries reading it.
Next ==
    \/ \E j \in Jobs : \E r \in Responses : StartUpdate(j, r)
    \/ \E j \in Jobs : QueryItems(j)
    \/ \E j \in Jobs : QueryItemsFails(j)
    \/ \E j \in Jobs : \E raises \in BOOLEAN : DeleteItem(j, raises)
    \/ \E j \in Jobs : UpsertItem(j)
    \/ \E j \in Jobs : UpsertItemFails(j)
    \/ \E j \in Jobs : Crash(j)
    \/ ExchangeCurrency("USD", "EUR", One)
    \/ ExchangeCurrencyHttp("USD", "EUR")
    \/ GetSupportedCurrencies(FALSE)

Spec == Init /\ [][Next]_vars

\* The query operations on every content of the store, with every input.
InitQuery ==
    /\ container \in StoreStates
    /\ next_uuid = Cardinality(container) + 1
    /\ ever_stored = Ids(container)
    /\ InitJobs

\* One invocation per behaviour: the functions keep nothing between two
\* invocations, so each is taken from the initial state.
NoQueryYet == resp.op = "none"

NextQuery ==
    \/ NoQueryYet /\ \E f \in CodeInputs, t \in CodeInputs, a \in Amounts :
                        ExchangeCurrency(f, t, a)
    \/ NoQueryYet /\ \E f \in Params, t \in Params : ExchangeCurrencyHttp(f, t)
    \/ NoQueryYet /\ GetSupportedCurrencies(TRUE)

SpecQuery == InitQuery /\ [][NextQuery]_vars

(***************************************************************************)
(* Properties.                                                             *)
(***************************************************************************)
SupportedSet == {SUPPORTED_CURRENCIES[i] : i \in 1..Len(SUPPORTED_CURRENCIES)}

Range(seq) == {seq[i] : i \in 1..Len(seq)}

IsConvert == resp.op = "exchange_currency"

IsHttp == resp.op = "exchange_currency_http"

IsList == resp.op = "get_supported_currencies"

\* c is x rounded to ndigits decimal places (x >= 0)
IsRounded(c, x, ndigits) ==
    LET p == Pow10(ndigits)
        g == GCD(p, x[2])
        n == x[1] * (p \div g)
        d == x[2] \div g
    IN  /\ p % c[2] = 0
        /\ 2 * Abs(c[1] * (p \div c[2]) * d - n) <= d

IsNotSupportedError(result, code) ==
    /\ ~result.ok
    /\ result.error.type = "ValueError"
    /\ Len(result.error.msg) = 4
    /\ result.error.msg[2] = code
    /\ result.error.msg[3] = "' is not supported. Supported currencies: "
    /\ result.error.msg[4] = SUPPORTED_CURRENCIES

IsNotInRatesError(result) ==
    /\ ~result.ok
    /\ result.error.type = "ValueError"
    /\ Len(result.error.msg) = 3
    /\ result.error.msg[3] = "' not found in current exchange rates from database"

IsNotFound(result) == ~result.ok /\ result.error.type = "NotFound"

\* C1: in every reachable state the container holds at most one snapshot
\* document, whatever the refresh runs did (a delete that fails and is only
\* logged, a crash part-way, two runs interleaving).
C1_AtMostOneSnapshot == Cardinality(container) <= 1

\* C2: after a refresh run that returned successfully, no other invocation
\* having ever run, every read of the current snapshot succeeds and gives a
\* snapshot whose conversion_rates are those fetched and whose id is none of
\* the ids stored before.
C2_ReadAfterReplace ==
    \A j \in Jobs :
        (pc[j] = "done" /\ \A k \in Jobs \ {j} : pc[k] = "idle") =>
            \A read \in get_current_rates_from_cosmos(container) :
                /\ read.ok
                /\ read.value.conversion_rates =
                       Get(rate_data[j].value, "conversion_rates", EmptyDict)
                /\ read.value.id \notin prior_ids[j]

\* C3: for every content of the store, the empty one included, and every
\* amount >= 0, a conversion with a code outside the supported list fails with
\* the ValueError that names the (first) unsupported code and lists the
\* supported codes, never with the "not found in current exchange rates" one,
\* also when the other code is only missing from the snapshot.
C3_UnsupportedAnyStore ==
    (IsConvert /\ ~RatLess(resp.amount, Zero)) =>
        LET from == upper(resp.from_currency)
            to == upper(resp.to_currency)
        IN  /\ from \notin SupportedSet => IsNotSupportedError(resp.result, from)
            /\ (from \in SupportedSet /\ to \notin SupportedSet) =>
                   IsNotSupportedError(resp.result, to)
            /\ (from \notin SupportedSet \/ to \notin SupportedSet) =>
                   ~IsNotInRatesError(resp.result)

\* C4: a conversion with amount < 0 fails with ValueError "Amount must be
\* non-negative" for every pair of codes and every content of the store, and
\* the store is not read.
C4_NegativeAmount ==
    (IsConvert /\ RatLess(resp.amount, Zero)) =>
        /\ ~resp.result.ok
        /\ resp.result.error.type = "ValueError"
        /\ resp.result.error.msg = <<"Amount must be non-negative">>
        /\ resp.read = NoRead

\* C4 witness: a negative amount with an unsupported code on an empty store.
C4_Witness ==
    /\ IsConvert
    /\ RatLess(resp.amount, Zero)
    /\ resp.from_currency = "XYZ"
    /\ container = {}
    /\ ~resp.result.ok

\* C5: when the store is empty the read fails with NotFound, and the
\* conversion of 1 USD to EUR fails with that error, which is an Exception
\* and no ValueError; the HTTP handler answers it with 500.
C5_EmptyStore ==
    /\ container = {} =>
          \A read \in get_current_rates_from_cosmos(container) : IsNotFound(read)
    /\ (IsConvert /\ IsNotFound(resp.read)) =>
          /\ IsNotFound(resp.result)
          /\ ~IsInstance(resp.result.error, "ValueError")
          /\ IsInstance(resp.result.error, "Exception")
    /\ (IsHttp /\ IsNotFound(resp.read)) =>
          /\ resp.answer.status_code = 500
          /\ ~resp.answer.escaped

\* C5 witness: a conversion made between the delete and the insert of a
\* refresh run that found a snapshot stored.
C5_Witness ==
    /\ IsConvert
    /\ resp.from_currency = "USD" /\ resp.to_currency = "EUR" /\ resp.amount = One
    /\ IsNotFound(resp.result)
    /\ container = {}
    /\ ever_stored # {}
    /\ \E j \in Jobs : pc[j] = "upsert_item"

\* The codes of the last conversion are supported and in the snapshot read.
ConvertibleCodes ==
    /\ IsConvert
    /\ ~RatLess(resp.amount, Zero)
    /\ resp.read.ok
    /\ upper(resp.from_currency) \in SupportedSet
    /\ upper(resp.to_currency) \in SupportedSet
    /\ upper(resp.from_currency) \in DOMAIN resp.read.value.conversion_rates
    /\ upper(resp.to_currency) \in DOMAIN resp.read.value.conversion_rates

\* The last conversion returned the cross rate to/from, unrounded, and the
\* amount times it rounded to 5 decimal places, for the upper-cased codes.
CrossRateResult ==
    LET rates == resp.read.value.conversion_rates
        from == upper(resp.from_currency)
        to == upper(resp.to_currency)
    IN  /\ resp.result.ok
        /\ resp.result.value.from_currency = from
        /\ resp.result.value.to_currency = to
        /\ RatMul(resp.result.value.exchange_rate, rates[from]) = rates[to]
        /\ IsRounded(resp.result.value.converted_amount,
                     RatMul(resp.amount, RatDiv(rates[to], rates[from])), 5)
        /\ (rates = RatesA /\ from = "USD" /\ to = "EUR" /\ resp.amount = <<10, 1>>) =>
               /\ resp.result.value.exchange_rate = <<9, 10>>
               /\ resp.result.value.converted_amount = <<9, 1>>

\* C6 as claimed: for every snapshot and every pair of codes both supported
\* and in conversion_rates, the from-rate not 0, the conversion returns
\* exchange_rate = to-rate / from-rate and converted_amount = amount times it
\* rounded to 5 decimal places; lower-case codes give the same.
C6_CrossRate ==
    (ConvertibleCodes
       /\ resp.read.value.conversion_rates[upper(resp.from_currency)] # Zero) =>
        CrossRateResult

\* C6 amended: the same, for a from-rate and a to-rate that are both not 0.
C6_CrossRateNonZero ==
    (ConvertibleCodes
       /\ resp.read.value.conversion_rates[upper(resp.from_currency)] # Zero
       /\ resp.read.value.conversion_rates[upper(resp.to_currency)] # Zero) =>
        CrossRateResult

\* C6 witness: 10 usd (lower case) to EUR at {USD: 1.0, EUR: 0.9, JPY: 150.0}
\* gives the rate 0.9 and the amount 9.0.
C6_Witness ==
    /\ IsConvert
    /\ resp.from_currency = "usd" /\ resp.to_currency = "EUR"
    /\ resp.amount = <<10, 1>>
    /\ resp.read.ok /\ resp.read.value.conversion_rates = RatesA
    /\ resp.result.ok
    /\ resp.result.value.exchange_rate = <<9, 10>>
    /\ resp.result.value.converted_amount = <<9, 1>>

\* C7 as claimed: for every code supported and in the snapshot and every
\* amount >= 0, converting the code to itself returns converted_amount equal
\* to amount exactly and exchange_rate 1.
C7_IdentityExact ==
    (ConvertibleCodes /\ upper(resp.from_currency) = upper(resp.to_currency)) =>
        /\ resp.result.ok
        /\ resp.result.value.exchange_rate = One
        /\ resp.result.value.converted_amount = resp.amount

\* C7 amended: for every code supported and in the snapshot with a rate that
\* is not 0, and every amount >= 0, converting the code to itself returns
\* exchange_rate 1 and converted_amount equal to amount rounded to 5 decimal
\* places, which is amount itself when amount has at most 5 decimal places.
C7_IdentityRounded ==
    (ConvertibleCodes
       /\ upper(resp.from_currency) = upper(resp.to_currency)
       /\ resp.read.value.conversion_rates[upper(resp.from_currency)] # Zero) =>
        /\ resp.result.ok
        /\ resp.result.value.exchange_rate = One
        /\ IsRounded(resp.result.value.converted_amount, resp.amount, 5)
        /\ Pow10(5) % resp.amount[2] = 0 =>
               resp.result.value.converted_amount = resp.amount

\* C7 witness: 0.000007 JPY to JPY gives 0.00001.
C7_Witness ==
    /\ IsConvert
    /\ resp.from_currency = "JPY" /\ resp.to_currency = "JPY"
    /\ resp.amount = <<7, 1000000>>
    /\ resp.result.ok
    /\ resp.result.value.exchange_rate = One
    /\ resp.result.value.converted_amount = <<1, 100000>>

\* The place of x in seq
IndexOf(seq, x) == CHOOSE i \in 1..Len(seq) : seq[i] = x

\* C8: for every stored snapshot get_supported_currencies returns
\* supported_and_available within both supported_currencies and
\* available_in_database, holding every code of both, without duplicates and
\* in the order of supported_currencies.
C8_SupportedAndAvailable ==
    (IsList /\ resp.result.ok) =>
        LET both == resp.result.value.supported_and_available
            supported == resp.result.value.supported_currencies
            available == resp.result.value.available_in_database
        IN  /\ supported = SUPPORTED_CURRENCIES
            /\ Range(available) = DOMAIN resp.read.value.conversion_rates
            /\ Range(both) \subseteq Range(supported)
            /\ Range(both) \subseteq Range(available)
            /\ Range(supported) \cap Range(available) \subseteq Range(both)
            /\ \A i, k \in 1..Len(both) :
                   i < k => IndexOf(supported, both[i]) < IndexOf(supported, both[k])

\* C8 witness: the store lists two supported codes in the order opposite to
\* the supported list's, beside a code that is not supported.
C8_Witness ==
    /\ IsList
    /\ resp.result.ok
    /\ "XYZ" \in Range(resp.result.value.available_in_database)
    /\ \E i, k \in 1..Len(resp.result.value.supported_and_available) :
          /\ i < k
          /\ IndexOf(resp.result.value.available_in_database,
                     resp.result.value.supported_and_available[i])
               > IndexOf(resp.result.value.available_in_database,
                         resp.result.value.supported_and_available[k])

\* C9: GET /exchange-currency answers 400 exactly when 'from' or 'to' is
\* missing or the conversion fails with a ValueError (a code not supported or
\* missing from the snapshot), 500 with type system_error when the conversion
\* fails with any other error, 200 with status success exactly when the
\* conversion succeeded; no exception leaves the handler.
C9_HttpStatus ==
    IsHttp =>
        LET missing == resp.from_currency \in {None, ""} \/ resp.to_currency \in {None, ""}
            convert == resp.convert
            answer == resp.answer
        IN  /\ ~answer.escaped
            /\ answer.status_code \in {200, 400, 500}
            /\ answer.status_code = 400 <=>
                   (missing \/ (~convert.ok /\ convert.error.type = "ValueError"))
            /\ (~missing /\ ~convert.ok /\ convert.error.type = "ValueError") =>
                   /\ answer.body.type = "validation_error"
                   /\ \E code \in {upper(resp.from_currency), upper(resp.to_currency)} :
                         \/ IsNotSupportedError(convert, code)
                         \/ IsNotInRatesError(convert) /\ convert.error.msg[2] = code
            /\ (~missing /\ ~convert.ok /\ convert.error.type # "ValueError") =>
                   /\ answer.status_code = 500
                   /\ answer.body.status = "error"
                   /\ answer.body.type = "system_error"
            /\ answer.status_code = 200 <=> (~missing /\ convert.ok)
            /\ answer.status_code = 200 => answer.body.status = "success"

\* C9 witness: a rate of 0 for the from-code: the arithmetic error is
\* answered with 500 system_error.
C9_Witness ==
    /\ IsHttp
    /\ ~resp.convert.ok
    /\ resp.convert.error.type = "ZeroDivisionError"
    /\ resp.answer.status_code = 500
    /\ resp.answer.body.type = "system_error"

OnlyWriter(j) == \A k \in Jobs \ {j} : pc[k] = "idle"

\* The stored document d carries the payload data: all its fields but the id.
CarriesPayload(d, data) == d = _prepare_item_for_cosmos(data, d.id)

\* C11: the refresh is idempotent in effect: after a successful run of a
\* sequence of runs on one external payload, the store holds exactly one
\* snapshot, whose base_code, conversion_rates and timestamps are the
\* payload's; only its id differs from the state after one run.
C11_Idempotent ==
    \A j \in Jobs :
        (/\ OnlyWriter(j)
         /\ pc[j] = "done"
         /\ \A d \in container : CarriesPayload(d, rate_data[j].value)) =>
            /\ Cardinality(container) = 1
            /\ \A d \in container : d.id = ret[j].value.id

\* C12: the replace is delete-then-insert: when a refresh run stops (the
\* process dies, or the upsert raises) after _delete_all_items has completed
\* and before the insert, the store is left empty and every read fails with
\* NotFound, until a later refresh run completes.
C12_StoppedReplaceLeavesEmpty ==
    \A j \in Jobs :
        (/\ OnlyWriter(j)
         /\ ret[j] \in {Raise("SystemExit", "upsert_item"),
                        Raise("CosmosHttpResponseError", "upsert_item")}) =>
            /\ container = {}
            /\ \A read \in get_current_rates_from_cosmos(container) : IsNotFound(read)

\* C13: a read sees NotFound or one complete snapshot as some refresh run
\* wrote it, never a mix of two; and a read made after a replace has returned
\* (no other writer) sees the snapshot that replace wrote, never an older one.
C13_ReadSeesOldOrNew ==
    \A read \in get_current_rates_from_cosmos(container) :
        /\ read.ok \/ IsNotFound(read)
        /\ read.ok =>
              /\ read.value.id \in ever_stored
              /\ \E b \in SuccessBodies : CarriesPayload(read.value, b)
        /\ \A j \in Jobs :
              (OnlyWriter(j) /\ pc[j] = "done" /\ read.ok) =>
                  read.value = ret[j].value

\* The payload is empty, or its 'result' is absent or not "success".
BadPayload(data) ==
    \/ data = EmptyDict
    \/ "result" \notin DOMAIN data
    \/ data["result"] # "success"

\* Invocation j's last run met a fetch that raised or a bad payload.
BadFetch(j) ==
    /\ pc[j] # "idle"
    /\ ~rate_data[j].ok \/ BadPayload(rate_data[j].value)

\* C14: the refresh run fetches, validates, deletes, inserts, in this order:
\* when the fetch raises, or the payload is empty or its 'result' is not
\* "success", the run fails (with the fetch's error unchanged, or with a
\* ValueError) without having listed, deleted or inserted anything; starting
\* a run leaves the store as it is, and the store changes only in a delete
\* or an insert of a run whose payload was accepted.
C14_NoWriteOnBadFetch ==
    [][/\ \A j \in Jobs :
             BadFetch(j)' =>
                 /\ pc'[j] = "failed"
                 /\ items'[j] = <<>>
                 /\ ret'[j] = IF rate_data'[j].ok
                                THEN Raise("ValueError",
                                           "Failed to fetch valid currency rate data")
                                ELSE rate_data'[j]
       /\ runs' # runs => (container' = container /\ ever_stored' = ever_stored)
       /\ container' # container =>
             \E j \in Jobs :
                 /\ pc[j] \in {"delete_item", "upsert_item"}
                 /\ pc'[j] # pc[j] \/ items'[j] # items[j]
                 /\ ~BadFetch(j)]_vars

\* C14 witness: a run failed on its fetch or its payload while a snapshot
\* written by an earlier run is stored.
C14_Witness ==
    \E j \in Jobs :
        /\ BadFetch(j)
        /\ rate_data[j].ok
        /\ pc[j] = "failed"
        /\ Cardinality(container) = 1
        /\ \A read \in get_current_rates_from_cosmos(container) : read.ok

\* C15: with both codes supported and in the snapshot and a from-rate of 0,
\* the conversion fails with an arithmetic error, which is no ValueError, and
\* returns no result; GET /exchange-currency answers it with 500
\* system_error, not 400, and no exception leaves the handler.
C15_ZeroFromRate ==
    /\ (ConvertibleCodes
          /\ resp.read.value.conversion_rates[upper(resp.from_currency)] = Zero) =>
           /\ ~resp.result.ok
           /\ resp.result.error.type = "ZeroDivisionError"
           /\ IsInstance(resp.result.error, "ArithmeticError")
           /\ ~IsInstance(resp.result.error, "ValueError")
    /\ (/\ IsHttp
        /\ resp.read.ok
        /\ {upper(resp.from_currency), upper(resp.to_currency)} \subseteq
               SupportedSet \cap DOMAIN resp.read.value.conversion_rates
        /\ resp.read.value.conversion_rates[upper(resp.from_currency)] = Zero) =>
           /\ ~resp.answer.escaped
           /\ resp.answer.status_code = 500
           /\ resp.answer.body.status = "error"
           /\ resp.answer.body.type = "system_error"

\* C15 witness: GET /exchange-currency?from=eur&to=USD with EUR at 0 in the
\* snapshot is answered with 500.
C15_Witness ==
    /\ IsHttp
    /\ resp.from_currency = "eur" /\ resp.to_currency = "USD"
    /\ resp.read.ok
    /\ resp.read.value.conversion_rates["EUR"] = Zero
    /\ resp.answer.status_code = 500

====
